---- MODULE Spec2Model ----
(***************************************************************************)
(* Model of the parallel build executor of crust                           *)
(* (src/src/executor/mod.rs): one coordinator thread, W worker threads,    *)
(* an unbounded task channel, an unbounded completion channel and the      *)
(* mutex-guarded produced-outputs map; further down, the dependency graph  *)
(* (src/src/graph/mod.rs), the staleness oracle and the native builder     *)
(* (src/src/backend/native.rs), each with its own specification.           *)
(*                                                                         *)
(* Target names are the integers 1..k.  The executor treats names as       *)
(* opaque HashMap keys, and the iteration order of its HashMaps is chosen  *)
(* nondeterministically below, so graphs are enumerated up to renaming:    *)
(* the dependencies of node n are drawn from 1..n-1.                       *)
(*                                                                         *)
(* The executor properties below hold at the bounds as written and were    *)
(* also model-checked with NumNodes = 4 (which adds the diamond) and with  *)
(* MaxDeps = MaxWorkers = 3.                                               *)
(***************************************************************************)
EXTENDS Integers, Sequences, FiniteSets, TLC

\* ---------------------------------------------------------------- bounds
NumNodes == 3
MaxDeps == 2
MaxWorkers == 2
MaxTime == 2
MaxPaths == 2

Names == 1..NumNodes
WorkerIds == 1..(MaxWorkers + 1)

\* ------------------------------------------------------------- utilities
RECURSIVE SeqsUpTo(_, _)
SeqsUpTo(S, n) ==
    IF n = 0 THEN {<<>>}
    ELSE LET shorter == SeqsUpTo(S, n - 1)
         IN  shorter \cup {Append(s, x) : s \in shorter, x \in S}

Perms(S) ==
    {p \in [1..Cardinality(S) -> S] : \A i, j \in DOMAIN p : p[i] = p[j] => i = j}

Range(s) == {s[i] : i \in DOMAIN s}

\* ----------------------------------------------------------------- graph
\* A validated DependencyGraph, reduced to what the executor reads: the
\* node names (DOMAIN g) and each node's declared dependencies, in order.
Graphs ==
    UNION {{g \in [1..k -> SeqsUpTo(Names, MaxDeps)] :
               \A n \in 1..k : Range(g[n]) \subseteq 1..(n - 1)} : k \in 0..NumNodes}

RECURSIVE TransDeps(_, _)
TransDeps(g, n) ==
    Range(g[n]) \cup UNION {TransDeps(g, d) : d \in Range(g[n])}

\* ------------------------------------------------------------ executor
\* BuildExecutor::new.  An Option is a sequence of length at most one:
\* Some(p) is taken as is, None falls back to the CPU count floored at 1.
Parallelisms == {<<>>} \cup {<<p>> : p \in 0..MaxWorkers}
BuildExecutorNew(parallelism, cpus) ==
    IF parallelism = <<>> THEN (IF cpus > 1 THEN cpus ELSE 1) ELSE parallelism[1]

\* Variant: the spawn loop runs once too often (`0..=self.workers`).
SpawnOneTooMany(w) == 1..(w + 1)

\* The handles pushed by the spawn loop `for _ in 0..self.workers`.
SpawnedWorkers(w) == 1..w

\* What an action may do on node n: return a path sequence, return an
\* error, or panic.
PathChoices(n) == {<<>>, <<n>>}
OkRes(p) == [tag |-> "ok", paths |-> p]
ErrRes == [tag |-> "err", paths |-> <<>>]
PanicRes == [tag |-> "panic", paths |-> <<>>]
NoRes == [tag |-> "none", paths |-> <<>>]

NoError == [tag |-> "none", node |-> 0]
ActionError(n) == [tag |-> "action", node |-> n]
StoppedError == [tag |-> "stopped", node |-> 0]

VARIABLES
    graph,        \* the DependencyGraph handed to execute
    workers,      \* BuildExecutor.workers
    cpc,          \* coordinator position: start, loop, dispatch, break, join, returned
    in_degree, dependents, remaining, first_error,
    produced,     \* the shared map: name -> paths, NoRes when absent
    tasks,        \* task channel contents
    task_open,    \* task_tx not yet dropped
    done,         \* completion channel contents
    join_idx,     \* next handle to join
    result,       \* what execute returned
    wpc,          \* per worker: unspawned, idle, got, run, exited, panicked
    wnode,        \* the name a worker received
    \* history
    invoked,      \* times the action was invoked per node
    enqueued,     \* times a name was sent on the task channel
    dep_args,     \* dep_outputs passed at the invocation
    returned,     \* what the action did per node
    done_log      \* every message ever sent on the completion channel

vars == <<graph, workers, cpc, in_degree, dependents, remaining, first_error,
          produced, tasks, task_open, done, join_idx, result, wpc, wnode,
          invoked, enqueued, dep_args, returned, done_log>>

\* The graph builder and the staleness oracle have their own state and
\* their own specifications (GraphSpec, StaleSpec, BuilderSpec) further down; while one
\* subsystem runs, the state of the others stays as it is.
VARIABLES
    manifest,     \* the ProjectManifest targets handed to from_manifest
    built,        \* what DependencyGraph::from_manifest returned
    topo,         \* what DependencyGraph::topo_order returned
    files,        \* the filesystem: path -> <<>> (missing) or <<mtime>>
    od,           \* the last is_outdated call and its result
    nr,           \* the last needs_rebuild call and its result
    bt,           \* the last execute_target call and its result
    touched,      \* the last source whose modification time was set
    run,          \* drive: the build run in progress or just over
    clock         \* drive: the time a write stamps on a file

graph_vars == <<manifest, built, topo>>
fs_vars == <<files, od, nr, bt, touched, run, clock>>

NoCall == [res |-> "none"]

GraphIdle ==
    /\ manifest = <<>>
    /\ built = NoCall
    /\ topo = NoCall

FsIdle ==
    /\ files = <<>>
    /\ od = NoCall
    /\ nr = NoCall
    /\ bt = NoCall
    /\ touched = NoCall
    /\ run = NoCall
    /\ clock = 0

Nodes == DOMAIN graph

Init ==
    /\ graph \in Graphs
    /\ workers \in {BuildExecutorNew(p, c) : p \in Parallelisms, c \in 0..MaxWorkers}
    /\ cpc = "start"
    /\ in_degree = [n \in Names |-> 0]
    /\ dependents = [n \in Names |-> <<>>]
    /\ remaining = 0
    /\ first_error = NoError
    /\ produced = [n \in Names |-> NoRes]
    /\ tasks = <<>>
    /\ task_open = TRUE
    /\ done = <<>>
    /\ join_idx = 1
    /\ result = [tag |-> "none", node |-> 0, produced |-> <<>>]
    /\ wpc = [w \in WorkerIds |-> "unspawned"]
    /\ wnode = [w \in WorkerIds |-> 0]
    /\ invoked = [n \in Names |-> 0]
    /\ enqueued = [n \in Names |-> 0]
    /\ dep_args = [n \in Names |-> <<>>]
    /\ returned = [n \in Names |-> NoRes]
    /\ done_log = <<>>
    /\ GraphIdle
    /\ FsIdle


\* ------------------------------------------------- execute: preparation
\* Lines 90-100: `dependents` gets one entry per occurrence of a dependency,
\* pushed in the iteration order of the `nodes` HashMap.
RECURSIVE PushDependents(_, _, _)
PushDependents(dm, name, ds) ==
    IF ds = <<>> THEN dm
    ELSE PushDependents([dm EXCEPT ![Head(ds)] = Append(@, name)], name, Tail(ds))

RECURSIVE BuildDependents(_, _, _)
BuildDependents(g, dm, order) ==
    IF order = <<>> THEN dm
    ELSE BuildDependents(g, PushDependents(dm, Head(order), g[Head(order)]), Tail(order))

\* Variant: the in-degree counts distinct dependencies, not occurrences.
InDegreeDistinct(g) ==
    [n \in Names |-> IF n \in DOMAIN g THEN Cardinality(Range(g[n])) ELSE 0]

InitialInDegree(g) == [n \in Names |-> IF n \in DOMAIN g THEN Len(g[n]) ELSE 0]

\* Variant: the filter on `*degree == 0` is missing.
ReadyAll(g) == DOMAIN g

\* Lines 102-111: the zero in-degree names.
ReadySet(g) == {n \in DOMAIN g : InitialInDegree(g)[n] = 0}

CountIn(s, n) == Cardinality({i \in DOMAIN s : s[i] = n})

\* Lines 87-157: build the bookkeeping, spawn the workers, drop the
\* coordinator's done_tx and send the ready names.
Start ==
    /\ cpc = "start"
    /\ \E order \in Perms(Nodes), ready \in Perms(ReadySet(graph)) :
          /\ in_degree' = InitialInDegree(graph)
          /\ dependents' = BuildDependents(graph, [n \in Names |-> <<>>], order)
          /\ tasks' = ready
          /\ enqueued' = [n \in Names |-> CountIn(ready, n)]
    /\ wpc' = [w \in WorkerIds |->
                  IF w \in SpawnedWorkers(workers) THEN "idle" ELSE "unspawned"]
    /\ remaining' = Cardinality(Nodes)
    /\ cpc' = "loop"
    /\ UNCHANGED <<graph, workers, first_error, produced, task_open, done,
                   join_idx, result, wnode, invoked, dep_args, returned, done_log>>
    /\ UNCHANGED <<graph_vars, fs_vars>>

\* ------------------------------------------------------------- workers
\* Variant: the contributions are collected in reverse order.
RECURSIVE DepOutputsReversed(_, _)
DepOutputsReversed(deps, map) ==
    IF deps = <<>> THEN <<>>
    ELSE DepOutputsReversed(Tail(deps), map) \o map[Head(deps)].paths

\* Variant: the produced map is not consulted.
RECURSIVE DepOutputsNone(_, _)
DepOutputsNone(deps, map) == <<>>

\* Lines 136-142: the snapshot taken under the mutex.
RECURSIVE DepOutputs(_, _)
DepOutputs(deps, map) ==
    IF deps = <<>> THEN <<>>
    ELSE map[Head(deps)].paths \o DepOutputs(Tail(deps), map)

\* Line 128, Ok arm: task_rx.recv() hands over the oldest queued name, also
\* after task_tx was dropped.  Lines 129-135: a name the graph does not know
\* is reported as an error without running the action.
WorkerRecv(w) ==
    /\ wpc[w] = "idle"
    /\ tasks # <<>>
    /\ tasks' = Tail(tasks)
    /\ IF Head(tasks) \in Nodes
         THEN /\ wnode' = [wnode EXCEPT ![w] = Head(tasks)]
              /\ wpc' = [wpc EXCEPT ![w] = "got"]
              /\ UNCHANGED <<done, done_log>>
         ELSE /\ done' = Append(done, [name |-> Head(tasks), res |-> ErrRes])
              /\ done_log' = Append(done_log, [name |-> Head(tasks), res |-> ErrRes])
              /\ UNCHANGED <<wnode, wpc>>
    /\ UNCHANGED <<graph, workers, cpc, in_degree, dependents, remaining,
                   first_error, produced, task_open, join_idx, result,
                   invoked, enqueued, dep_args, returned>>
    /\ UNCHANGED <<graph_vars, fs_vars>>

\* Line 128, Err arm: the channel is empty and disconnected; the thread ends.
WorkerExit(w) ==
    /\ wpc[w] = "idle"
    /\ tasks = <<>>
    /\ ~task_open
    /\ wpc' = [wpc EXCEPT ![w] = "exited"]
    /\ UNCHANGED <<graph, workers, cpc, in_degree, dependents, remaining,
                   first_error, produced, tasks, task_open, done, join_idx,
                   result, wnode, invoked, enqueued, dep_args, returned, done_log>>
    /\ UNCHANGED <<graph_vars, fs_vars>>

\* Lines 136-143: snapshot dep_outputs under the lock and call run_node.
WorkerInvoke(w) ==
    /\ wpc[w] = "got"
    /\ dep_args' = [dep_args EXCEPT ![wnode[w]] = DepOutputs(graph[wnode[w]], produced)]
    /\ invoked' = [invoked EXCEPT ![wnode[w]] = @ + 1]
    /\ wpc' = [wpc EXCEPT ![w] = "run"]
    /\ UNCHANGED <<graph, workers, cpc, in_degree, dependents, remaining,
                   first_error, produced, tasks, task_open, done, join_idx,
                   result, wnode, enqueued, returned, done_log>>
    /\ UNCHANGED <<graph_vars, fs_vars>>

\* Lines 143-144: run_node returns and the result is posted.
WorkerReturn(w) ==
    /\ wpc[w] = "run"
    /\ \E res \in {OkRes(p) : p \in PathChoices(wnode[w])} \cup {ErrRes} :
          /\ returned' = [returned EXCEPT ![wnode[w]] = res]
          /\ done' = Append(done, [name |-> wnode[w], res |-> res])
          /\ done_log' = Append(done_log, [name |-> wnode[w], res |-> res])
    /\ wpc' = [wpc EXCEPT ![w] = "idle"]
    /\ UNCHANGED <<graph, workers, cpc, in_degree, dependents, remaining,
                   first_error, produced, tasks, task_open, join_idx, result,
                   wnode, invoked, enqueued, dep_args>>
    /\ UNCHANGED <<graph_vars, fs_vars>>

\* Line 143: run_node panics; the thread unwinds, dropping its task_rx and
\* done_tx clones, and nothing is posted.
WorkerPanic(w) ==
    /\ wpc[w] = "run"
    /\ returned' = [returned EXCEPT ![wnode[w]] = PanicRes]
    /\ wpc' = [wpc EXCEPT ![w] = "panicked"]
    /\ UNCHANGED <<graph, workers, cpc, in_degree, dependents, remaining,
                   first_error, produced, tasks, task_open, done, join_idx,
                   result, wnode, invoked, enqueued, dep_args, done_log>>
    /\ UNCHANGED <<graph_vars, fs_vars>>

Worker(w) ==
    \/ WorkerRecv(w)
    \/ WorkerExit(w)
    \/ WorkerInvoke(w)
    \/ WorkerReturn(w)
    \/ WorkerPanic(w)


\* --------------------------------------------------------- coordinator
\* Variant: the entry is created but the outputs are not stored in it.
InsertProducedDropsPaths(map, name, outputs) == [map EXCEPT ![name] = OkRes(<<>>)]

\* Lines 173-176: the insert under the mutex.
InsertProduced(map, name, outputs) == [map EXCEPT ![name] = OkRes(outputs)]

ProducedLen(map) == Cardinality({n \in Names : map[n].tag = "ok"})

\* Variant: a child is sent whenever one of its dependencies finishes.
RECURSIVE DispatchEager(_, _, _)
DispatchEager(children, deg, sent) ==
    IF children = <<>> THEN [deg |-> deg, sent |-> sent]
    ELSE LET child == Head(children)
             d == IF deg[child] > 0 THEN deg[child] - 1 ELSE deg[child]
         IN  DispatchEager(Tail(children),
                           [deg EXCEPT ![child] = d],
                           Append(sent, child))

\* Lines 179-190: walk the children of a finished node; each occurrence
\* lowers the child's in-degree (never below 0) and a child whose in-degree
\* is 0 afterwards is sent on the task channel.  Yields the new in-degrees
\* and the names sent, in order.
RECURSIVE Dispatch(_, _, _)
Dispatch(children, deg, sent) ==
    IF children = <<>> THEN [deg |-> deg, sent |-> sent]
    ELSE LET child == Head(children)
             d == IF deg[child] > 0 THEN deg[child] - 1 ELSE deg[child]
         IN  Dispatch(Tail(children),
                      [deg EXCEPT ![child] = d],
                      IF d = 0 THEN Append(sent, child) ELSE sent)

\* Variant: the `break` is missing, so a later error replaces the first.
OnErrorContinue(name) ==
    /\ first_error' = ActionError(name)
    /\ remaining' = remaining - 1
    /\ UNCHANGED cpc

\* Lines 193-196: an action error is kept and ends the loop.
OnError(name) ==
    /\ first_error' = ActionError(name)
    /\ cpc' = "break"
    /\ UNCHANGED remaining

\* Variant: the outputs of a finished node are not stored before its
\* children are dispatched.
CoordRecvNoInsert ==
    /\ cpc = "loop"
    /\ remaining > 0
    /\ done # <<>>
    /\ IF Head(done).res.tag = "ok"
         THEN /\ cpc' = "dispatch"
              /\ UNCHANGED <<produced, done, first_error, remaining>>
         ELSE /\ OnError(Head(done).name)
              /\ done' = Tail(done)
              /\ UNCHANGED produced
    /\ UNCHANGED <<graph, workers, in_degree, dependents, tasks, task_open,
                   join_idx, result, wpc, wnode, invoked, enqueued, dep_args,
                   returned, done_log>>
    /\ UNCHANGED <<graph_vars, fs_vars>>

\* Lines 162-176 and 193-196, done_rx.recv() = Ok(msg): the first half of a
\* turn of the loop.  An Ok result is stored in the produced map under the
\* mutex; the message in hand stays at the head of `done` until the turn
\* ends in CoordDispatch.  An Err result ends the loop.
CoordRecv ==
    /\ cpc = "loop"
    /\ remaining > 0
    /\ done # <<>>
    /\ IF Head(done).res.tag = "ok"
         THEN /\ produced' = InsertProduced(produced, Head(done).name, Head(done).res.paths)
              /\ cpc' = "dispatch"
              /\ UNCHANGED <<done, first_error, remaining>>
         ELSE /\ OnError(Head(done).name)
              /\ done' = Tail(done)
              /\ UNCHANGED produced
    /\ UNCHANGED <<graph, workers, in_degree, dependents, tasks, task_open,
                   join_idx, result, wpc, wnode, invoked, enqueued, dep_args,
                   returned, done_log>>
    /\ UNCHANGED <<graph_vars, fs_vars>>

\* Lines 178-199: the second half of the turn, after the mutex was released:
\* the children of the finished node are walked and the ready ones sent.
CoordDispatch ==
    /\ cpc = "dispatch"
    /\ LET name == Head(done).name
           d == Dispatch(dependents[name], in_degree, <<>>)
       IN  /\ dependents' = [dependents EXCEPT ![name] = <<>>]
           /\ in_degree' = d.deg
           /\ tasks' = tasks \o d.sent
           /\ enqueued' = [n \in Names |-> enqueued[n] + CountIn(d.sent, n)]
    /\ done' = Tail(done)
    /\ remaining' = remaining - 1
    /\ cpc' = "loop"
    /\ UNCHANGED <<graph, workers, first_error, produced, task_open, join_idx,
                   result, wpc, wnode, invoked, dep_args, returned, done_log>>
    /\ UNCHANGED <<graph_vars, fs_vars>>

\* Variant: `drop(done_tx)` (line 149) is missing, so the coordinator's own
\* sender keeps the completion channel connected.
DoneSendersKeepsCoordinator ==
    {w \in 0..workers : w = 0 \/ wpc[w] \notin {"exited", "panicked"}}

\* A worker's done_tx clone lives as long as its thread.
DoneSenders == {w \in SpawnedWorkers(workers) : wpc[w] \notin {"exited", "panicked"}}

\* Lines 163-168, done_rx.recv() = Err: the completion channel is empty and
\* every sender is gone.
CoordDisconnected ==
    /\ cpc = "loop"
    /\ remaining > 0
    /\ done = <<>>
    /\ DoneSenders = {}
    /\ first_error' = StoppedError
    /\ cpc' = "break"
    /\ UNCHANGED <<graph, workers, in_degree, dependents, remaining, produced,
                   tasks, task_open, done, join_idx, result, wpc, wnode,
                   invoked, enqueued, dep_args, returned, done_log>>
    /\ UNCHANGED <<graph_vars, fs_vars>>

\* Variant: `drop(task_tx)` is missing, so the task channel stays connected.
CloseQueueKeepOpen ==
    /\ \/ cpc = "loop" /\ remaining = 0
       \/ cpc = "break"
    /\ cpc' = "join"
    /\ UNCHANGED <<graph, workers, in_degree, dependents, remaining, first_error,
                   produced, tasks, task_open, done, join_idx, result, wpc, wnode,
                   invoked, enqueued, dep_args, returned, done_log>>
    /\ UNCHANGED <<graph_vars, fs_vars>>

\* Line 202: the loop is over (remaining = 0 or break); task_tx is dropped.
CoordCloseQueue ==
    /\ \/ cpc = "loop" /\ remaining = 0
       \/ cpc = "break"
    /\ task_open' = FALSE
    /\ cpc' = "join"
    /\ UNCHANGED <<graph, workers, in_degree, dependents, remaining, first_error,
                   produced, tasks, done, join_idx, result, wpc, wnode,
                   invoked, enqueued, dep_args, returned, done_log>>
    /\ UNCHANGED <<graph_vars, fs_vars>>

Returned(r) ==
    /\ result' = r
    /\ cpc' = "returned"

\* Lines 203-207: join the next handle; a panicked thread ends execute.
CoordJoin ==
    /\ cpc = "join"
    /\ join_idx \in SpawnedWorkers(workers)
    /\ wpc[join_idx] \in {"exited", "panicked"}
    /\ IF wpc[join_idx] = "panicked"
         THEN /\ Returned([tag |-> "worker_panicked", node |-> 0, produced |-> <<>>])
              /\ UNCHANGED join_idx
         ELSE /\ join_idx' = join_idx + 1
              /\ UNCHANGED <<result, cpc>>
    /\ UNCHANGED <<graph, workers, in_degree, dependents, remaining, first_error,
                   produced, tasks, task_open, done, wpc, wnode,
                   invoked, enqueued, dep_args, returned, done_log>>
    /\ UNCHANGED <<graph_vars, fs_vars>>

\* Variant: the result is reported without waiting for the joins.
CoordFinishNoJoin ==
    /\ cpc = "join"
    /\ Returned(IF first_error # NoError
                  THEN [tag |-> first_error.tag, node |-> first_error.node,
                        produced |-> <<>>]
                ELSE IF ProducedLen(produced) # Cardinality(Nodes)
                  THEN [tag |-> "incomplete", node |-> 0, produced |-> <<>>]
                ELSE [tag |-> "ok", node |-> 0, produced |-> produced])
    /\ UNCHANGED <<graph, workers, in_degree, dependents, remaining, first_error,
                   produced, tasks, task_open, done, join_idx, wpc, wnode,
                   invoked, enqueued, dep_args, returned, done_log>>
    /\ UNCHANGED <<graph_vars, fs_vars>>

\* Lines 209-226: every handle joined; report the first error, or the
\* count mismatch, or the produced map.
CoordFinish ==
    /\ cpc = "join"
    /\ join_idx \notin SpawnedWorkers(workers)
    /\ Returned(IF first_error # NoError
                  THEN [tag |-> first_error.tag, node |-> first_error.node,
                        produced |-> <<>>]
                ELSE IF ProducedLen(produced) # Cardinality(Nodes)
                  THEN [tag |-> "incomplete", node |-> 0, produced |-> <<>>]
                ELSE [tag |-> "ok", node |-> 0, produced |-> produced])
    /\ UNCHANGED <<graph, workers, in_degree, dependents, remaining, first_error,
                   produced, tasks, task_open, done, join_idx, wpc, wnode,
                   invoked, enqueued, dep_args, returned, done_log>>
    /\ UNCHANGED <<graph_vars, fs_vars>>

Coordinator ==
    \/ Start
    \/ CoordRecv
    \/ CoordDispatch
    \/ CoordDisconnected
    \/ CoordCloseQueue
    \/ CoordJoin
    \/ CoordFinish

Next ==
    \/ Coordinator
    \/ \E w \in WorkerIds : Worker(w)

Spec == Init /\ [][Next]_vars

\* Threads are scheduled fairly: a thread that can take a step eventually does.
FairSpec ==
    /\ Init
    /\ [][Next]_vars
    /\ WF_vars(Coordinator)
    /\ \A w \in WorkerIds : WF_vars(Worker(w))


\* ============================================================== claims
Running == {w \in WorkerIds : wpc[w] = "run"}
NoPanic == \A n \in Names : returned[n].tag # "panic"

\* C1: whenever the action of a node v is invoked, the action of every
\* direct and transitive dependency of v has already returned Ok.
C1_DepsReturnedBeforeInvoke ==
    [][\A v \in Nodes :
          invoked'[v] > invoked[v] =>
              \A u \in TransDeps(graph, v) : returned[u].tag = "ok"]_vars

\* A node with a dependency that is only transitive has been invoked while
\* two workers run.
C1_Witness ==
    /\ workers >= 2
    /\ \E v \in Nodes :
          /\ invoked[v] = 1
          /\ TransDeps(graph, v) # Range(graph[v])

\* C2: when execute returns Ok, the action was invoked exactly once for
\* every node of the graph.
C2_ExactlyOnceOnSuccess ==
    (cpc = "returned" /\ result.tag = "ok") =>
        \A n \in Nodes : invoked[n] = 1

\* execute returned Ok on a full-size graph with a repeated dependency.
C2_Witness ==
    /\ cpc = "returned"
    /\ result.tag = "ok"
    /\ Cardinality(Nodes) = NumNodes
    /\ \E n \in Nodes : Len(graph[n]) > Cardinality(Range(graph[n]))

\* C3: in every run, failing ones included, no name is sent on the task
\* channel more than once and no action is invoked more than once.
C3_AtMostOnce ==
    \A n \in Names : enqueued[n] <= 1 /\ invoked[n] <= 1

\* execute returned an action error after a node with two distinct
\* dependencies had been dispatched and run.
C3_Witness ==
    /\ cpc = "returned"
    /\ result.tag = "action"
    /\ \E n \in Nodes :
          /\ Cardinality(Range(graph[n])) = 2
          /\ enqueued[n] = 1
          /\ invoked[n] = 1

\* The number of paths returned by the first i-1 dependencies of a list.
RECURSIVE PathsBefore(_, _)
PathsBefore(deps, i) ==
    IF i = 1 THEN 0
    ELSE PathsBefore(deps, i - 1) + Len(returned[deps[i - 1]].paths)

\* The concatenation, in declared order, of what the actions of the listed
\* dependencies returned, position by position.
ReturnedConcat(deps) ==
    [p \in 1..PathsBefore(deps, Len(deps) + 1) |->
        LET i == CHOOSE i \in DOMAIN deps :
                    /\ PathsBefore(deps, i) < p
                    /\ p <= PathsBefore(deps, i + 1)
        IN  returned[deps[i]].paths[p - PathsBefore(deps, i)]]

\* C4: the dep_outputs handed to the action of v is the concatenation, in
\* the declared order of v's dependencies, of the paths their actions
\* returned; a dependency that returned no path contributes nothing.
C4_DepOutputsAreConcatenation ==
    \A v \in Nodes :
        invoked[v] > 0 => dep_args[v] = ReturnedConcat(graph[v])

\* A node whose two dependencies are declared against name order, both
\* with a path, has been invoked.
C4_Witness ==
    \E v \in Nodes :
        /\ invoked[v] > 0
        /\ Len(graph[v]) = 2
        /\ graph[v][1] > graph[v][2]
        /\ Len(dep_args[v]) = 2

\* C5: the number of actions executing at the same time never exceeds the
\* configured worker count.
C5_BoundedParallelism == Cardinality(Running) <= workers

\* Every one of two or more workers is inside an action.
C5_Witness ==
    /\ workers >= 2
    /\ Cardinality(Running) = workers


\* The node of the first error message ever sent on the completion channel.
FirstFailure ==
    LET errs == {i \in DOMAIN done_log : done_log[i].res.tag = "err"}
        first == CHOOSE i \in errs : \A j \in errs : i <= j
    IN  done_log[first].name

\* C6: if some action returned an error and no worker panicked, execute
\* returns an error, never Ok: the error of the first failed completion on
\* the completion channel; errors of later completions are discarded.
C6_FirstErrorWins ==
    (cpc = "returned" /\ NoPanic /\ \E n \in Nodes : returned[n].tag = "err") =>
        /\ result.tag = "action"
        /\ result.node = FirstFailure
        /\ returned[result.node].tag = "err"

\* execute returned after two different actions had returned an error.
C6_Witness ==
    /\ cpc = "returned"
    /\ NoPanic
    /\ \E n, m \in Nodes :
          /\ n # m
          /\ returned[n].tag = "err"
          /\ returned[m].tag = "err"

\* C7: once the coordinator has recorded the first action error, no worker
\* invokes an action any more.
C7_NoInvokeAfterError ==
    [][first_error.tag = "action" => invoked' = invoked]_vars

\* C8: once a worker has panicked inside an action, execute eventually
\* returns, and what it returns is the worker-panic error.
C8_PanicIsReported ==
    (\E w \in WorkerIds : wpc[w] = "panicked")
        ~> (cpc = "returned" /\ result.tag = "worker_panicked")

\* C9: with at least one worker and actions that all return (Ok or Err),
\* execute eventually returns under fair scheduling.
C9_Terminates ==
    (workers >= 1) => <>(cpc = "returned" \/ ~NoPanic)

\* execute returned an action error on a full-size graph, with at least
\* one worker, leaving some node's action never invoked.
C9_Witness ==
    /\ cpc = "returned"
    /\ workers >= 1
    /\ NoPanic
    /\ result.tag = "action"
    /\ Cardinality(Nodes) = NumNodes
    /\ \E n \in Nodes : invoked[n] = 0

\* C10: when execute returns Ok, the returned map has exactly one entry
\* per node of the graph, holding the paths that node's action returned.
C10_ProducedIsWhatActionsReturned ==
    (cpc = "returned" /\ result.tag = "ok") =>
        \A n \in Names :
            IF n \in Nodes
              THEN /\ returned[n].tag = "ok"
                   /\ result.produced[n] = OkRes(returned[n].paths)
              ELSE result.produced[n].tag = "none"

\* execute returned Ok on a full-size graph where one action returned a
\* path and another returned none.
C10_Witness ==
    /\ cpc = "returned"
    /\ result.tag = "ok"
    /\ Cardinality(Nodes) = NumNodes
    /\ \E n, m \in Nodes :
          /\ returned[n].paths # <<>>
          /\ returned[m].paths = <<>>


\* C11: when execute returns an action error, every worker thread has
\* exited: no action is executing and no received name is waiting to run.
C11_QuiescedBeforeActionError ==
    (cpc = "returned" /\ result.tag = "action") =>
        \A w \in SpawnedWorkers(workers) : wpc[w] = "exited"

\* execute returned an action error with two workers, and an action that
\* was in flight when the error was recorded ran to its end: it returned
\* Ok but its outputs were never recorded.
C11_Witness ==
    /\ cpc = "returned"
    /\ result.tag = "action"
    /\ workers >= 2
    /\ \E n \in Nodes : returned[n].tag = "ok" /\ produced[n].tag = "none"


\* What a deterministic action returns for node n given dep_outputs d: a
\* path always, never, only without dependency outputs, or only for an
\* even number of them.
ActionKinds == {"always", "never", "leaf", "parity"}

ActionFn(k, n, d) ==
    CASE k = "always" -> <<n>>
      [] k = "never" -> <<>>
      [] k = "leaf" -> IF d = <<>> THEN <<n>> ELSE <<>>
      [] OTHER -> IF Len(d) % 2 = 0 THEN <<n>> ELSE <<>>

\* The run so far is a run of the action ActionFn(k, _, _).
ConsistentWith(k) ==
    \A n \in Nodes :
        returned[n].tag # "none" => returned[n] = OkRes(ActionFn(k, n, dep_args[n]))

\* What the nodes produce when they are run one after the other in
\* dependency order.
RECURSIVE SequentialPaths(_, _, _)
RECURSIVE SequentialDeps(_, _, _)
SequentialDeps(k, g, deps) ==
    IF deps = <<>> THEN <<>>
    ELSE SequentialPaths(k, g, Head(deps)) \o SequentialDeps(k, g, Tail(deps))

SequentialPaths(k, g, n) == ActionFn(k, n, SequentialDeps(k, g, g[n]))

\* C22: for an action that is a function of (node, dep_outputs), every
\* successful run returns the produced map of the sequential run, whatever
\* the worker count (1 or more) and the interleaving.
C22_OutcomeIndependentOfWorkers ==
    \A k \in ActionKinds :
        (cpc = "returned" /\ result.tag = "ok" /\ ConsistentWith(k)) =>
            \A n \in Nodes : result.produced[n] = OkRes(SequentialPaths(k, graph, n))

\* A successful run with two workers of the parity action on a full-size
\* graph in which some node got one dependency output and some node two.
C22_Witness ==
    /\ cpc = "returned"
    /\ result.tag = "ok"
    /\ workers >= 2
    /\ ConsistentWith("parity")
    /\ Cardinality(Nodes) = NumNodes
    /\ \E n \in Nodes : Len(dep_args[n]) = 1
    /\ \E n \in Nodes : Len(dep_args[n]) = 2

\* C23 as stated: once the action of some node has returned an error, no
\* further name is sent on the task channel.
C23_NoEnqueueAfterFailure ==
    [][(\E n \in Nodes : returned[n].tag = "err") => enqueued' = enqueued]_vars

\* C23 amended: once the coordinator has received the error completion of a
\* node (first_error is set), no further name is sent on the task channel;
\* Ok completions that are ahead of it on the completion channel are still
\* processed and may send their dependents.
C23_NoEnqueueAfterErrorReceived ==
    [][first_error.tag = "action" =>
          enqueued' = enqueued /\ Len(tasks') <= Len(tasks)]_vars

\* execute returned an action error and left a node unsent although the
\* actions of all its dependencies had returned Ok.
C23_Witness ==
    /\ cpc = "returned"
    /\ result.tag = "action"
    /\ \E n \in Nodes :
          /\ enqueued[n] = 0
          /\ graph[n] # <<>>
          /\ \A d \in Range(graph[n]) : returned[d].tag = "ok"

\* C24: when a worker takes the mutex to snapshot dep_outputs for node v,
\* the produced map holds an entry for every dependency of v.
C24_DepsInsertedBeforeSnapshot ==
    [][\A v \in Nodes :
          invoked'[v] > invoked[v] =>
              \A d \in Range(graph[v]) : produced[d].tag = "ok"]_vars

\* A node with two distinct dependencies has taken its snapshot while the
\* coordinator is between storing another result and dispatching.
C24_Witness ==
    /\ workers >= 2
    /\ cpc = "dispatch"
    /\ \E v \in Nodes :
          /\ invoked[v] = 1
          /\ Cardinality(Range(graph[v])) = 2

RECURSIVE SumUpTo(_, _)
SumUpTo(f, n) == IF n = 0 THEN 0 ELSE f[n] + SumUpTo(f, n - 1)

\* C25: the task queue never holds more than |nodes| names and no more
\* than |nodes| names are ever sent on it.
C25_QueueBounded ==
    /\ Len(tasks) <= Cardinality(Nodes)
    /\ SumUpTo(enqueued, NumNodes) <= Cardinality(Nodes)

\* The queue is as long as it can get: every node of a full-size graph is
\* waiting on it.
C25_Witness ==
    /\ Cardinality(Nodes) = NumNodes
    /\ Len(tasks) = NumNodes

\* C27: no direct or transitive dependent of a node whose action returned
\* an error is ever sent on the task channel or has its action invoked.
C27_DependentsOfFailedNeverRun ==
    \A n \in Nodes :
        returned[n].tag = "err" =>
            \A v \in Nodes :
                n \in TransDeps(graph, v) => enqueued[v] = 0 /\ invoked[v] = 0

\* execute returned with two workers after the action of a node failed
\* whose dependent had its other dependency finished and stored.
C27_Witness ==
    /\ cpc = "returned"
    /\ workers >= 2
    /\ \E n, v \in Nodes :
          /\ returned[n].tag = "err"
          /\ n \in TransDeps(graph, v)
          /\ \E m \in Range(graph[v]) : produced[m].tag = "ok"
          /\ enqueued[v] = 0

\* main.rs lines 85-87: drive rejects `--jobs 0` before a backend exists.
DriveRejectsJobs(jobs) == jobs = <<0>>

\* C29: BuildExecutor::new(Some(0)) yields zero workers (only drive rejects
\* --jobs 0); execute then never invokes an action and returns: the
\* stopped error on a non-empty graph, an empty Ok map on the empty graph.
C29_ZeroWorkersReturn ==
    /\ \A c \in 0..MaxWorkers : BuildExecutorNew(<<0>>, c) = 0
    /\ DriveRejectsJobs(<<0>>)
    /\ (workers = 0) =>
          /\ [](\A n \in Names : invoked[n] = 0)
          /\ <>( /\ cpc = "returned"
                 /\ IF Nodes = {}
                      THEN /\ result.tag = "ok"
                           /\ \A n \in Names : result.produced[n].tag = "none"
                      ELSE result.tag = "stopped" )

\* execute returned the stopped error with zero workers, the ready names
\* of a full-size graph still on the task queue.
C29_Witness ==
    /\ cpc = "returned"
    /\ workers = 0
    /\ Cardinality(Nodes) = NumNodes
    /\ result.tag = "stopped"
    /\ tasks # <<>>
    /\ \A n \in Names : invoked[n] = 0

\* C31: from the start of the loop on, the produced map holds total -
\* remaining entries whenever the coordinator is between two iterations or
\* past the loop (one more between the insert of an iteration and its
\* `remaining -= 1`); so a loop that ends with remaining = 0 and no error
\* leaves exactly total entries, and execute never returns 'Build did not
\* complete'.
C31_ProducedCountsCompleted ==
    /\ cpc \in {"loop", "break", "join", "returned"} =>
          ProducedLen(produced) = Cardinality(Nodes) - remaining
    /\ cpc = "dispatch" =>
          ProducedLen(produced) = Cardinality(Nodes) - remaining + 1
    /\ (cpc \in {"join", "returned"} /\ first_error = NoError /\ remaining = 0) =>
          ProducedLen(produced) = Cardinality(Nodes)
    /\ result.tag # "incomplete"

C31_Witness ==
    /\ cpc = "returned"
    /\ result.tag = "ok"
    /\ remaining = 0
    /\ Cardinality(Nodes) >= 2
    /\ ProducedLen(result.produced) = Cardinality(Nodes)
    /\ \E n \in Nodes : graph[n] # <<>>


\* ===================================================== graph construction
\* src/src/graph/mod.rs.  A manifest is a sequence of targets; a target name
\* is one of Names, so a dependency on a name no target carries is an
\* unknown dependency.
TargetTypes == {"executable", "static_library", "shared_library", "custom_command"}

\* Target (src/src/config/mod.rs): `outputs` and `command` are fields of a
\* custom_command only and stay empty for the other types.
MakeTarget(type, name, deps, outputs) ==
    [type |-> type, name |-> name, deps |-> deps,
     sources |-> <<<<"src/", name, ".c">>>>,
     outputs |-> outputs,
     command |-> IF type = "custom_command" THEN <<"sh">> ELSE <<>>]

\* What a custom_command may declare as outputs: nothing, or one file.
DeclaredOutputs(name) == {<<>>, <<<<"", name, ".gen">>>>}

\* Manifests are drawn from two families: executables with every
\* dependency list, and targets of every type without dependencies
\* (from_manifest treats the type and the dependencies independently).
DepTargets ==
    {MakeTarget("executable", n, d, <<>>) : n \in Names, d \in SeqsUpTo(Names, MaxDeps)}

KindTargets ==
    UNION {{MakeTarget(t, n, <<>>, o) :
               o \in IF t = "custom_command" THEN DeclaredOutputs(n) ELSE {<<>>}} :
           t \in TargetTypes, n \in Names}

Manifests(k) == [1..k -> DepTargets] \cup [1..k -> KindTargets]

\* Lines 43-77: the TargetNode built for a target.
MakeNode(t) ==
    [name |-> t.name,
     kind |-> t.type,
     sources |-> t.sources,
     dependencies |-> t.deps,
     outputs |-> CASE t.type = "executable" -> <<<<"", t.name, "">>>>
                   [] t.type = "static_library" -> <<<<"lib", t.name, ".a">>>>
                   [] t.type = "shared_library" -> <<<<"lib", t.name, ".so">>>>
                   [] OTHER -> t.outputs,
     command |-> t.command]

MapInsert(map, key, value) ==
    [k \in DOMAIN map \cup {key} |-> IF k = key THEN value ELSE map[k]]

\* Variant: the contains_key test is missing; insert replaces the entry.
RECURSIVE InsertTargetsOverwrite(_, _)
InsertTargetsOverwrite(targets, nodes) ==
    IF targets = <<>> THEN [res |-> "ok", nodes |-> nodes]
    ELSE InsertTargetsOverwrite(Tail(targets),
                                MapInsert(nodes, Head(targets).name, MakeNode(Head(targets))))

\* Lines 37-79: insert the targets in manifest order; a name already
\* present ends construction with DuplicateName.
RECURSIVE InsertTargets(_, _)
InsertTargets(targets, nodes) ==
    IF targets = <<>> THEN [res |-> "ok", nodes |-> nodes]
    ELSE IF Head(targets).name \in DOMAIN nodes
      THEN [res |-> "duplicate", nodes |-> <<>>]
    ELSE InsertTargets(Tail(targets),
                       MapInsert(nodes, Head(targets).name, MakeNode(Head(targets))))

\* Variant: only the first dependency of each node is looked up.
ValidateFirstDependencyOnly(nodes) ==
    \A n \in DOMAIN nodes :
        nodes[n].dependencies # <<>> => nodes[n].dependencies[1] \in DOMAIN nodes

\* Lines 87-100: TRUE when every dependency of every node is a key.
ValidateDependencies(nodes) ==
    \A n \in DOMAIN nodes :
        \A i \in DOMAIN nodes[n].dependencies :
            nodes[n].dependencies[i] \in DOMAIN nodes

\* Lines 103-123: the DFS.  st carries the flag of a detected cycle and the
\* two mark sets temp (in progress) and perm (done).
RECURSIVE Visit(_, _, _)
RECURSIVE VisitAll(_, _, _)

\* Line 115: a name without a node has nothing to visit.
DepsToVisit(nodes, node) ==
    IF node \in DOMAIN nodes THEN nodes[node].dependencies ELSE <<>>

\* Variant: a single mark, set before the dependencies are visited.
VisitOneMark(node, nodes, st) ==
    IF st.err \/ node \in st.perm THEN st
    ELSE VisitAll(DepsToVisit(nodes, node), nodes,
                  [st EXCEPT !.perm = @ \cup {node}])

VisitAll(deps, nodes, st) ==
    IF deps = <<>> \/ st.err THEN st
    ELSE VisitAll(Tail(deps), nodes, Visit(Head(deps), nodes, st))

Visit(node, nodes, st) ==
    IF st.err \/ node \in st.perm THEN st
    ELSE IF node \in st.temp THEN [st EXCEPT !.err = TRUE]
    ELSE LET after == VisitAll(DepsToVisit(nodes, node), nodes,
                               [st EXCEPT !.temp = @ \cup {node}])
         IN  IF after.err THEN after
             ELSE [after EXCEPT !.temp = @ \ {node}, !.perm = @ \cup {node}]

\* Lines 125-130: visit every key, in the iteration order `seeds` of the
\* HashMap; TRUE when a cycle was met.
CheckCycles(nodes, seeds) ==
    VisitAll(seeds, nodes, [err |-> FALSE, temp |-> {}, perm |-> {}]).err

\* Lines 32-85.
FromManifestResult(targets, seeds) ==
    LET ins == InsertTargets(targets, <<>>)
    IN  IF ins.res # "ok" THEN ins
        ELSE IF ~ValidateDependencies(ins.nodes)
          THEN [res |-> "unknown", nodes |-> <<>>]
        ELSE IF CheckCycles(ins.nodes, seeds)
          THEN [res |-> "cycle", nodes |-> <<>>]
        ELSE ins

TargetNames(targets) == {targets[i].name : i \in DOMAIN targets}

\* ------------------------------------------------------------ topo_order
\* Variant: a child is pushed each time one of its dependencies is popped.
RECURSIVE TopoChildrenEager(_, _, _)
TopoChildrenEager(children, deg, queue) ==
    IF children = <<>> THEN [deg |-> deg, queue |-> queue]
    ELSE LET child == Head(children)
         IN  TopoChildrenEager(Tail(children),
                               [deg EXCEPT ![child] = @ - 1],
                               Append(queue, child))

\* Lines 160-167: lower the in-degree of each child of the popped node and
\* push the child when it reaches 0.
RECURSIVE TopoChildren(_, _, _)
TopoChildren(children, deg, queue) ==
    IF children = <<>> THEN [deg |-> deg, queue |-> queue]
    ELSE LET child == Head(children)
         IN  TopoChildren(Tail(children),
                          [deg EXCEPT ![child] = @ - 1],
                          IF deg[child] - 1 = 0 THEN Append(queue, child) ELSE queue)

\* Lines 153-169: pop from the back of the queue until it is empty.
RECURSIVE TopoLoop(_, _, _, _)
TopoLoop(queue, deg, deps_of, order) ==
    IF queue = <<>> THEN order
    ELSE LET name == queue[Len(queue)]
             next == TopoChildren(deps_of[name], deg, SubSeq(queue, 1, Len(queue) - 1))
         IN  TopoLoop(next.queue, next.deg, deps_of, Append(order, name))

\* Lines 133-175.  `iter` is the iteration order of the nodes map and
\* `ready` that of the zero in-degree entries of the in_degree map.
TopoOrderResult(nodes, iter, ready) ==
    LET g == [n \in DOMAIN nodes |-> nodes[n].dependencies]
        deg == [n \in DOMAIN nodes |-> Len(g[n])]
        deps_of == BuildDependents(g, [n \in Names |-> <<>>], iter)
        order == TopoLoop(ready, deg, deps_of, <<>>)
    IN  IF Len(order) # Cardinality(DOMAIN nodes)
          THEN [res |-> "cycle", order |-> <<>>]
          ELSE [res |-> "ok", order |-> order]

\* ------------------------------------------------- GraphSpec: the actions
ExecIdle ==
    /\ graph = <<>>
    /\ workers = 0
    /\ cpc = "off"
    /\ in_degree = [n \in Names |-> 0]
    /\ dependents = [n \in Names |-> <<>>]
    /\ remaining = 0
    /\ first_error = NoError
    /\ produced = [n \in Names |-> NoRes]
    /\ tasks = <<>>
    /\ task_open = TRUE
    /\ done = <<>>
    /\ join_idx = 1
    /\ result = [tag |-> "none", node |-> 0, produced |-> <<>>]
    /\ wpc = [w \in WorkerIds |-> "unspawned"]
    /\ wnode = [w \in WorkerIds |-> 0]
    /\ invoked = [n \in Names |-> 0]
    /\ enqueued = [n \in Names |-> 0]
    /\ dep_args = [n \in Names |-> <<>>]
    /\ returned = [n \in Names |-> NoRes]
    /\ done_log = <<>>

GraphInit ==
    /\ \E k \in 0..NumNodes : manifest \in Manifests(k)
    /\ built = NoCall
    /\ topo = NoCall
    /\ ExecIdle
    /\ FsIdle

\* DependencyGraph::from_manifest(&manifest).
FromManifest ==
    /\ built = NoCall
    /\ \E seeds \in Perms(TargetNames(manifest)) :
          built' = FromManifestResult(manifest, seeds)
    /\ UNCHANGED <<manifest, topo>>
    /\ UNCHANGED <<vars, fs_vars>>

\* graph.topo_order() on a constructed graph.
TopoOrder ==
    /\ built.res = "ok"
    /\ topo = NoCall
    /\ \E iter \in Perms(DOMAIN built.nodes),
          ready \in Perms({n \in DOMAIN built.nodes :
                              built.nodes[n].dependencies = <<>>}) :
          topo' = TopoOrderResult(built.nodes, iter, ready)
    /\ UNCHANGED <<manifest, built>>
    /\ UNCHANGED <<vars, fs_vars>>

GraphNext ==
    \/ FromManifest
    \/ TopoOrder

all_vars == <<vars, graph_vars, fs_vars>>

GraphSpec == GraphInit /\ [][GraphNext]_all_vars

\* ------------------------------ DupSpec: drive on repeated dependencies
\* drive (src/src/main.rs:81-113) on a fresh checkout: from_manifest, then
\* emit, whose executor runs the graph, then topo_order for the summaries.
\* The manifests are those in which some target names a dependency twice.
HasRepeatedDependency(deps) == Len(deps) > Cardinality(Range(deps))

DupManifests ==
    {[i \in DOMAIN g |-> MakeTarget("executable", i, g[i], <<>>)] :
        g \in {h \in Graphs : \E n \in DOMAIN h : HasRepeatedDependency(h[n])}}

DupInit ==
    /\ manifest \in DupManifests
    /\ built = NoCall
    /\ topo = NoCall
    /\ ExecIdle
    /\ FsIdle

\* main.rs:85-100 and native.rs:298-311: a jobs value of 0 is rejected,
\* any other becomes the executor's parallelism; nothing is built yet, so
\* the project is outdated and emit hands the graph to execute.
DriveEmit ==
    /\ built.res = "ok"
    /\ cpc = "off"
    /\ \E jobs \in Parallelisms, cpus \in 0..MaxWorkers :
          /\ ~DriveRejectsJobs(jobs)
          /\ workers' = BuildExecutorNew(jobs, cpus)
    /\ graph' = [n \in DOMAIN built.nodes |-> built.nodes[n].dependencies]
    /\ cpc' = "start"
    /\ UNCHANGED <<in_degree, dependents, remaining, first_error, produced,
                   tasks, task_open, done, join_idx, result, wpc, wnode,
                   invoked, enqueued, dep_args, returned, done_log>>
    /\ UNCHANGED <<graph_vars, fs_vars>>

\* main.rs:105-111: emit returned Ok without summaries, so drive asks the
\* graph for its topological order.
DriveTopoOrder ==
    /\ cpc = "returned"
    /\ result.tag = "ok"
    /\ TopoOrder

DupNext ==
    \/ FromManifest
    \/ DriveEmit
    \/ Next
    \/ DriveTopoOrder

DupSpec == DupInit /\ [][DupNext]_all_vars

\* C28: a node whose dependency list names the same node more than once is
\* still put on the task queue at most once, and only after every one of
\* its dependencies has its outputs in the produced map; its action gets
\* the dependency's outputs once per occurrence; when execute returns Ok
\* the node was dispatched and invoked exactly once; and topo_order
\* succeeds and lists the node exactly once.
C28_RepeatedDependencyOnce ==
    \A n \in Nodes :
        HasRepeatedDependency(graph[n]) =>
            /\ enqueued[n] <= 1
            /\ invoked[n] <= 1
            /\ enqueued[n] = 1 => \A d \in Range(graph[n]) : produced[d].tag = "ok"
            /\ invoked[n] = 1 =>
                  /\ dep_args[n] = DepOutputs(graph[n], returned)
                  /\ Len(dep_args[n]) =
                        SumUpTo([i \in 1..Len(graph[n]) |->
                                    Len(returned[graph[n][i]].paths)], Len(graph[n]))
            /\ (cpc = "returned" /\ result.tag = "ok") =>
                  enqueued[n] = 1 /\ invoked[n] = 1
            /\ topo # NoCall =>
                  /\ topo.res = "ok"
                  /\ CountIn(topo.order, n) = 1
                  /\ \A d \in Range(graph[n]) :
                        \E i, j \in DOMAIN topo.order :
                            i < j /\ topo.order[i] = d /\ topo.order[j] = n

C28_Witness ==
    /\ topo # NoCall
    /\ \E n \in Nodes :
          /\ Len(graph[n]) = 2
          /\ graph[n][1] = graph[n][2]
          /\ invoked[n] = 1
          /\ Len(dep_args[n]) = 2


\* ------------------------------------------------------- graph claims
\* Facts about the manifest itself, independent of the builder.
UniqueNames(targets) ==
    \A i, j \in DOMAIN targets : targets[i].name = targets[j].name => i = j

KnownDeps(targets) ==
    \A i \in DOMAIN targets :
        Range(targets[i].deps) \subseteq TargetNames(targets)

\* u -> v is an edge when some target named v lists u as a dependency.
ManifestEdge(targets, u, v) ==
    \E i \in DOMAIN targets : targets[i].name = v /\ u \in Range(targets[i].deps)

\* The names reachable from `from` along at least one edge, by rounds.
RECURSIVE ReachFrom(_, _, _)
ReachFrom(targets, seen, rounds) ==
    IF rounds = 0 THEN seen
    ELSE ReachFrom(targets,
                   seen \cup {v \in Names : \E u \in seen : ManifestEdge(targets, u, v)},
                   rounds - 1)

HasCycle(targets) ==
    \E n \in Names :
        n \in ReachFrom(targets, {v \in Names : ManifestEdge(targets, n, v)}, NumNodes)

Position(order, n) == CHOOSE i \in DOMAIN order : order[i] = n

\* C12: an accepted manifest yields exactly one node per target, carrying
\* that target's dependencies, and topo_order returns Ok with every node
\* exactly once and every dependency before its dependent.
C12_NodesAndTopoOrder ==
    /\ built.res = "ok" =>
          /\ DOMAIN built.nodes = TargetNames(manifest)
          /\ Cardinality(DOMAIN built.nodes) = Len(manifest)
          /\ \A i \in DOMAIN manifest :
                /\ built.nodes[manifest[i].name].name = manifest[i].name
                /\ built.nodes[manifest[i].name].dependencies = manifest[i].deps
    /\ topo # NoCall =>
          /\ topo.res = "ok"
          /\ Len(topo.order) = Cardinality(DOMAIN built.nodes)
          /\ Range(topo.order) = DOMAIN built.nodes
          /\ \A v \in DOMAIN built.nodes :
                \A u \in Range(built.nodes[v].dependencies) :
                    Position(topo.order, u) < Position(topo.order, v)

\* topo_order returned for a full-size graph in which one node has two
\* different dependencies.
C12_Witness ==
    /\ topo # NoCall
    /\ topo.res = "ok"
    /\ Len(manifest) = NumNodes
    /\ \E v \in DOMAIN built.nodes :
          Cardinality(Range(built.nodes[v].dependencies)) = 2

\* C13 as stated: every manifest whose edges contain a cycle is rejected
\* with the Cycle error.
C13_CycleAlwaysReported ==
    (built # NoCall /\ HasCycle(manifest)) => built.res = "cycle"

\* C13 amended: a manifest with unique names and known dependencies whose
\* edges contain a cycle is rejected with the Cycle error, for every seed
\* order of the DFS.
C13_CycleReportedWhenReached ==
    (built # NoCall /\ HasCycle(manifest)
        /\ UniqueNames(manifest) /\ KnownDeps(manifest)) => built.res = "cycle"

\* from_manifest rejected a well-formed full-size manifest that has a
\* cycle but no self-loop.
C13_Witness ==
    /\ built # NoCall
    /\ built.res = "cycle"
    /\ Len(manifest) = NumNodes
    /\ UniqueNames(manifest)
    /\ KnownDeps(manifest)
    /\ \A i \in DOMAIN manifest : manifest[i].name \notin Range(manifest[i].deps)

\* C14 as stated: every manifest with a dependency name that no target
\* carries is rejected with the UnknownDependency error.
C14_UnknownAlwaysReported ==
    (built # NoCall /\ ~KnownDeps(manifest)) => built.res = "unknown"

\* C14 amended: a manifest with unique target names and a dependency name
\* that no target carries is rejected with the UnknownDependency error.
C14_UnknownReportedWhenReached ==
    (built # NoCall /\ ~KnownDeps(manifest) /\ UniqueNames(manifest)) =>
        built.res = "unknown"

\* from_manifest rejected a manifest with unique names in which the only
\* unknown name is the second dependency of a target.
C14_Witness ==
    /\ built # NoCall
    /\ built.res = "unknown"
    /\ UniqueNames(manifest)
    /\ \E i \in DOMAIN manifest :
          /\ Len(manifest[i].deps) = 2
          /\ manifest[i].deps[1] \in TargetNames(manifest)
          /\ manifest[i].deps[2] \notin TargetNames(manifest)
          /\ \A j \in DOMAIN manifest :
                j # i => Range(manifest[j].deps) \subseteq TargetNames(manifest)

\* C15: a manifest in which two targets share a name is rejected with the
\* DuplicateName error and no graph is produced.
C15_DuplicateNameReported ==
    (built # NoCall /\ ~UniqueNames(manifest)) =>
        /\ built.res = "duplicate"
        /\ built.nodes = <<>>

\* from_manifest rejected a manifest whose first and last targets share a
\* name and which is otherwise well-formed.
C15_Witness ==
    /\ built # NoCall
    /\ built.res = "duplicate"
    /\ Len(manifest) = NumNodes
    /\ manifest[1].name = manifest[Len(manifest)].name
    /\ KnownDeps(manifest)
    /\ ~HasCycle(manifest)

\* C16: every node of a constructed graph has at least one output.
C16_OutputsNonEmpty ==
    built.res = "ok" =>
        \A n \in DOMAIN built.nodes : built.nodes[n].outputs # <<>>

\* ------------------------------------------------------ staleness oracle
\* Paths are <<directory, prefix, stem, suffix>>; Join(dir, rel) is
\* dir.join(rel) for a relative path <<prefix, stem, suffix>>.
ManifestDir == "manifest_dir"
OutDir == "out_dir"
ManifestPath == <<ManifestDir, "", "crust", ".build">>

Join(dir, rel) == <<dir>> \o rel

JoinAll(dir, rels) == [i \in DOMAIN rels |-> Join(dir, rels[i])]

\* Modification times.  SystemTime is signed around UNIX_EPOCH: the times
\* below UNIX_EPOCH are the ones before 1970.
Times == 0..MaxTime
UNIX_EPOCH == 1

\* A path is missing (<<>>) or a file with one modification time.
FileStates == {<<>>} \cup {<<t>> : t \in Times}

\* Path::exists and fs::metadata(path)?.modified()?.
Exists(fs, p) == p \in DOMAIN fs /\ fs[p] # <<>>

Modified(fs, p) == fs[p][1]

RECURSIVE Flatten(_)
Flatten(seqs) == IF seqs = <<>> THEN <<>> ELSE Head(seqs) \o Flatten(Tail(seqs))

\* The order in which latest_input_time meets the source paths:
\* self.nodes.values() in the HashMap order iter, each node's sources in
\* declaration order, joined to the manifest directory.
SourcePathsIn(nodes, iter, manifest_dir) ==
    Flatten([i \in DOMAIN iter |-> JoinAll(manifest_dir, nodes[iter[i]].sources)])

\* Variant: the sources are not consulted.
RECURSIVE LatestInputTimeManifestOnly(_, _, _)
LatestInputTimeManifestOnly(fs, paths, latest) == latest

\* graph/mod.rs lines 203-217: the loop over the source paths.
RECURSIVE LatestInputTime(_, _, _)
LatestInputTime(fs, paths, latest) ==
    IF paths = <<>> THEN latest
    ELSE LET path == Head(paths)
         IN  LatestInputTime(fs, Tail(paths),
                 IF Exists(fs, path) /\ Modified(fs, path) > latest
                 THEN Modified(fs, path) ELSE latest)

\* graph/mod.rs lines 219-227: oldest is an Option (<<>> is None); metadata
\* of a missing path is an error.
RECURSIVE OldestOutputTime(_, _, _)
OldestOutputTime(fs, outputs, oldest) ==
    IF outputs = <<>> THEN [res |-> IF oldest = <<>> THEN "error" ELSE "ok", time |-> oldest]
    ELSE IF ~Exists(fs, Head(outputs)) THEN [res |-> "error", time |-> <<>>]
    ELSE LET modified == Modified(fs, Head(outputs))
         IN  OldestOutputTime(fs, Tail(outputs),
                 IF oldest = <<>> \/ modified < oldest[1] THEN <<modified>> ELSE oldest)

\* Variant: a tie counts as outdated.
IsOutdatedTieStale(fs, nodes, iter, manifest_path, backend_outputs) ==
    IF backend_outputs = <<>> THEN "true"
    ELSE IF \E i \in DOMAIN backend_outputs : ~Exists(fs, backend_outputs[i]) THEN "true"
    ELSE IF ~Exists(fs, manifest_path) THEN "error"
    ELSE LET latest_input == LatestInputTime(fs, SourcePathsIn(nodes, iter, manifest_path[1]),
                                             Modified(fs, manifest_path))
             oldest_output == OldestOutputTime(fs, backend_outputs, <<>>)
         IN  IF oldest_output.res = "error" THEN "error"
             ELSE IF latest_input >= oldest_output.time[1] THEN "true" ELSE "false"

\* graph/mod.rs lines 181-201: Ok(true), Ok(false) or Err.
IsOutdated(fs, nodes, iter, manifest_path, backend_outputs) ==
    IF backend_outputs = <<>> THEN "true"
    ELSE IF \E i \in DOMAIN backend_outputs : ~Exists(fs, backend_outputs[i]) THEN "true"
    ELSE IF ~Exists(fs, manifest_path) THEN "error"
    ELSE LET latest_input == LatestInputTime(fs, SourcePathsIn(nodes, iter, manifest_path[1]),
                                             Modified(fs, manifest_path))
             oldest_output == OldestOutputTime(fs, backend_outputs, <<>>)
         IN  IF oldest_output.res = "error" THEN "error"
             ELSE IF latest_input > oldest_output.time[1] THEN "true" ELSE "false"

\* native.rs lines 40-49: latest starts at UNIX_EPOCH.
RECURSIVE LatestModTime(_, _, _)
LatestModTime(fs, paths, latest) ==
    IF paths = <<>> THEN latest
    ELSE LET path == Head(paths)
         IN  LatestModTime(fs, Tail(paths),
                 IF Exists(fs, path) /\ Modified(fs, path) > latest
                 THEN Modified(fs, path) ELSE latest)

\* native.rs lines 51-58.
RECURSIVE OldestModTime(_, _, _)
OldestModTime(fs, paths, oldest) ==
    IF paths = <<>> THEN [res |-> IF oldest = <<>> THEN "error" ELSE "ok", time |-> oldest]
    ELSE IF ~Exists(fs, Head(paths)) THEN [res |-> "error", time |-> <<>>]
    ELSE LET modified == Modified(fs, Head(paths))
         IN  OldestModTime(fs, Tail(paths),
                 IF oldest = <<>> \/ modified < oldest[1] THEN <<modified>> ELSE oldest)

\* native.rs lines 24-38: Ok(true), Ok(false) or Err.
NeedsRebuild(fs, inputs, outputs) ==
    IF outputs = <<>> THEN "true"
    ELSE IF \E i \in DOMAIN outputs : ~Exists(fs, outputs[i]) THEN "true"
    ELSE LET latest_input == LatestModTime(fs, inputs, UNIX_EPOCH)
             oldest_output == OldestModTime(fs, outputs, <<>>)
         IN  IF oldest_output.res = "error" THEN "error"
             ELSE IF latest_input > oldest_output.time[1] THEN "true" ELSE "false"

\* The project of the staleness checks: an executable that depends on a
\* static library, one source each.
LibTarget(type) ==
    MakeTarget(type, "lib", <<>>,
               IF type = "custom_command" THEN <<<<"", "lib", ".gen">>>> ELSE <<>>)

AppTarget(type) ==
    MakeTarget(type, "app", <<"lib">>,
               IF type = "custom_command" THEN <<<<"", "app", ".gen">>>> ELSE <<>>)

StaleProject == <<LibTarget("static_library"), AppTarget("executable")>>

SourcePaths(nodes) ==
    UNION {Range(JoinAll(ManifestDir, nodes[n].sources)) : n \in DOMAIN nodes}

OutputPaths(nodes) ==
    UNION {Range(JoinAll(OutDir, nodes[n].outputs)) : n \in DOMAIN nodes}

StalePaths(nodes) == {ManifestPath} \cup SourcePaths(nodes) \cup OutputPaths(nodes)

\* A loaded project and any snapshot of its files.
StaleInit ==
    /\ manifest = StaleProject
    /\ \E seeds \in Perms(TargetNames(manifest)) :
          built = FromManifestResult(manifest, seeds)
    /\ topo = NoCall
    /\ files \in [StalePaths(built.nodes) -> FileStates]
    /\ od = NoCall
    /\ nr = NoCall
    /\ bt = NoCall
    /\ touched = NoCall
    /\ run = NoCall
    /\ clock = 0
    /\ ExecIdle

\* graph.is_outdated(&manifest_path, &backend_outputs); after a touch the
\* question is repeated for the same outputs.
CheckOutdated ==
    /\ od = NoCall
    /\ nr = NoCall
    /\ \E iter \in Perms(DOMAIN built.nodes),
          backend_outputs \in SeqsUpTo(OutputPaths(built.nodes), MaxPaths) :
          /\ touched # NoCall => backend_outputs = touched.outs
          /\ od' = [res |-> IsOutdated(files, built.nodes, iter, ManifestPath, backend_outputs),
                    outs |-> backend_outputs]
    /\ UNCHANGED <<files, nr, bt, touched>>
    /\ UNCHANGED <<run, clock>>
    /\ UNCHANGED <<vars, graph_vars>>

\* backend.needs_rebuild(&inputs, &outputs).
CheckRebuild ==
    /\ od = NoCall
    /\ nr = NoCall
    /\ touched = NoCall
    /\ \E inputs \in SeqsUpTo(SourcePaths(built.nodes), MaxPaths),
          outputs \in SeqsUpTo(OutputPaths(built.nodes), MaxPaths) :
          nr' = [res |-> NeedsRebuild(files, inputs, outputs),
                 inputs |-> inputs, outputs |-> outputs]
    /\ UNCHANGED <<files, od, bt, touched>>
    /\ UNCHANGED <<run, clock>>
    /\ UNCHANGED <<vars, graph_vars>>

\* Between two is_outdated calls the modification time of one declared
\* source is set (the file is created if it was missing).
Touch ==
    /\ od # NoCall
    /\ touched = NoCall
    /\ \E path \in SourcePaths(built.nodes), time \in Times :
          /\ files' = [files EXCEPT ![path] = <<time>>]
          /\ touched' = [res |-> "touched", path |-> path, time |-> time,
                         before |-> od.res, outs |-> od.outs]
    /\ od' = NoCall
    /\ UNCHANGED <<nr, bt>>
    /\ UNCHANGED <<run, clock>>
    /\ UNCHANGED <<vars, graph_vars>>

StaleNext ==
    \/ CheckOutdated
    \/ CheckRebuild
    \/ Touch

StaleSpec == StaleInit /\ [][StaleNext]_all_vars

\* --------------------------------------------------- staleness properties
SetMax(S) == CHOOSE x \in S : \A y \in S : y <= x

SetMin(S) == CHOOSE x \in S : \A y \in S : x <= y

ExistingTimes(fs, paths) == {Modified(fs, p) : p \in {q \in paths : Exists(fs, q)}}

AllExist(fs, paths) == \A i \in DOMAIN paths : Exists(fs, paths[i])

\* Latest time among the manifest and the declared sources, earliest time
\* among the outputs.
LatestProjectInput(fs, nodes) ==
    SetMax(ExistingTimes(fs, {ManifestPath} \cup SourcePaths(nodes)))

EarliestOf(fs, outs) == SetMin(ExistingTimes(fs, Range(outs)))

\* C17: is_outdated returns true exactly when backend_outputs is empty, or
\* one of them is missing, or the latest modification time among the
\* manifest and the declared sources of all nodes is strictly greater than
\* the earliest one among backend_outputs; on a tie it returns false.  (The
\* manifest is the file the graph was loaded from; were it missing, reading
\* its metadata is the I/O error of section 4.2.)
C17_IsOutdatedExact ==
    od.res # "none" =>
        /\ od.res = "true" <=>
              \/ od.outs = <<>>
              \/ ~AllExist(files, od.outs)
              \/ /\ Exists(files, ManifestPath)
                 /\ LatestProjectInput(files, built.nodes) > EarliestOf(files, od.outs)
        /\ ( /\ od.outs # <<>>
             /\ AllExist(files, od.outs)
             /\ Exists(files, ManifestPath)
             /\ LatestProjectInput(files, built.nodes) = EarliestOf(files, od.outs) )
           => od.res = "false"
        /\ Exists(files, ManifestPath) => od.res \in {"true", "false"}

\* C17 witness: a tie between a source newer than the manifest and the
\* older of two outputs, answered false.
C17_Witness ==
    /\ od.res = "false"
    /\ Len(od.outs) = 2
    /\ od.outs[1] # od.outs[2]
    /\ Modified(files, od.outs[1]) > Modified(files, od.outs[2])
    /\ Modified(files, ManifestPath) < EarliestOf(files, od.outs)
    /\ LatestProjectInput(files, built.nodes) = EarliestOf(files, od.outs)

\* C18: needs_rebuild returns true exactly when outputs is empty, or an
\* output is missing, or the latest modification time among the inputs that
\* exist is strictly greater than the earliest one among outputs; missing
\* inputs are ignored, and with no existing input and all outputs present
\* it returns false.
C18_NeedsRebuildExact ==
    nr.res # "none" =>
        /\ nr.res \in {"true", "false"}
        /\ nr.res = "true" <=>
              \/ nr.outputs = <<>>
              \/ ~AllExist(files, nr.outputs)
              \/ /\ ExistingTimes(files, Range(nr.inputs)) # {}
                 /\ SetMax(ExistingTimes(files, Range(nr.inputs)))
                       > EarliestOf(files, nr.outputs)

\* Outside the times before UNIX_EPOCH the statement of C18 holds: when no
\* output is older than UNIX_EPOCH, needs_rebuild is exactly the comparison
\* of the existing inputs with the outputs.
NeedsRebuildExactFromEpoch ==
    ( /\ nr.res # "none"
      /\ \A t \in ExistingTimes(files, Range(nr.outputs)) : t >= UNIX_EPOCH )
    => /\ nr.res \in {"true", "false"}
       /\ nr.res = "true" <=>
              \/ nr.outputs = <<>>
              \/ ~AllExist(files, nr.outputs)
              \/ /\ ExistingTimes(files, Range(nr.inputs)) # {}
                 /\ SetMax(ExistingTimes(files, Range(nr.inputs)))
                       > EarliestOf(files, nr.outputs)

\* C19: after is_outdated answered false, setting the modification time of
\* one declared source above that of every backend output makes is_outdated
\* answer true.
C19_TouchedSourceOutdates ==
    ( /\ touched.res = "touched"
      /\ touched.before = "false"
      /\ od.res # "none"
      /\ \A i \in DOMAIN touched.outs : touched.time > Modified(files, touched.outs[i]) )
    => od.res = "true"

\* C19 witness: the flip from false to true caused by a touched source.
C19_Witness ==
    /\ touched.res = "touched"
    /\ touched.before = "false"
    /\ touched.path \in SourcePaths(built.nodes)
    /\ Len(touched.outs) = 2
    /\ \A i \in DOMAIN touched.outs : touched.time > Modified(files, touched.outs[i])
    /\ od.res = "true"
    /\ od.outs = touched.outs

\* -------------------------------------------------------- native builder
\* Variant: the dependency outputs are left out of the inputs.
CollectInputsSourcesOnly(manifest_dir, sources, dep_outputs) ==
    JoinAll(manifest_dir, sources)

\* native.rs lines 247-251.
CollectInputs(manifest_dir, sources, dep_outputs) ==
    JoinAll(manifest_dir, sources) \o dep_outputs

\* native.rs line 69: out_dir.join(format!("{target_name}_{idx}.o")).
ObjectPath(out_dir, target_name, idx) ==
    <<out_dir, "", target_name, "_" \o ToString(idx) \o ".o">>

\* A tool that succeeds leaves its output with the time t of the write.
WriteFile(fs, path, t) == [fs EXCEPT ![path] = <<t>>]

\* How the tools of one action behave: all succeed, the compiler exits
\* non-zero, the final tool (linker, archiver, shell) exits non-zero, or the
\* shell command succeeds without writing its declared outputs.
ToolOutcomes == {"ok", "compile_fails", "final_fails", "no_output"}

\* native.rs lines 60-97, from source number idx on.  st carries the
\* filesystem, the tools spawned so far and the objects collected.
RECURSIVE CompileObjects(_, _, _, _, _, _, _)
CompileObjects(st, sources, idx, out_dir, target_name, outcome, t) ==
    IF sources = <<>> THEN st
    ELSE LET source_path == Join(ManifestDir, Head(sources))
             object_path == ObjectPath(out_dir, target_name, idx)
             check == NeedsRebuild(st.fs, <<source_path>>, <<object_path>>)
         IN  IF check = "error" THEN [st EXCEPT !.res = "err"]
             ELSE IF check = "false"
               THEN CompileObjects([st EXCEPT !.objects = Append(@, object_path)],
                                   Tail(sources), idx + 1, out_dir, target_name, outcome, t)
             ELSE IF outcome = "compile_fails" \/ ~Exists(st.fs, source_path)
               THEN [st EXCEPT !.res = "err", !.tools = Append(@, "cc -c")]
             ELSE CompileObjects([st EXCEPT !.fs = WriteFile(@, object_path, t),
                                            !.tools = Append(@, "cc -c"),
                                            !.objects = Append(@, object_path)],
                                 Tail(sources), idx + 1, out_dir, target_name, outcome, t)

\* Variant: the artifact is rebuilt without asking needs_rebuild.
BuildArtifactAlways(fs, tool, output, name, sources, dep_outputs, out_dir, outcome, t) ==
    LET c == CompileObjects([res |-> "ok", fs |-> fs, tools |-> <<>>, objects |-> <<>>],
                            sources, 0, out_dir, name, outcome, t)
    IN  IF c.res = "err"
          THEN [res |-> "err", paths |-> <<>>, fs |-> c.fs, tools |-> c.tools]
        ELSE IF outcome = "final_fails"
          THEN [res |-> "err", paths |-> <<>>, fs |-> c.fs, tools |-> Append(c.tools, tool)]
        ELSE [res |-> "ok", paths |-> <<output>>, fs |-> WriteFile(c.fs, output, t),
              tools |-> Append(c.tools, tool)]

\* The common body of link_executable (lines 153-182), link_shared_library
\* (184-216) and archive_static_library (218-245): return the output path
\* when needs_rebuild is false, else compile the objects and run the tool.
BuildArtifact(fs, tool, output, name, sources, dep_outputs, out_dir, outcome, t) ==
    LET check == NeedsRebuild(fs, CollectInputs(ManifestDir, sources, dep_outputs), <<output>>)
    IN  IF check = "error"
          THEN [res |-> "err", paths |-> <<>>, fs |-> fs, tools |-> <<>>]
        ELSE IF check = "false"
          THEN [res |-> "ok", paths |-> <<output>>, fs |-> fs, tools |-> <<>>]
        ELSE LET c == CompileObjects([res |-> "ok", fs |-> fs, tools |-> <<>>, objects |-> <<>>],
                                     sources, 0, out_dir, name, outcome, t)
             IN  IF c.res = "err"
                   THEN [res |-> "err", paths |-> <<>>, fs |-> c.fs, tools |-> c.tools]
                 ELSE IF outcome = "final_fails"
                   THEN [res |-> "err", paths |-> <<>>, fs |-> c.fs,
                         tools |-> Append(c.tools, tool)]
                 ELSE [res |-> "ok", paths |-> <<output>>, fs |-> WriteFile(c.fs, output, t),
                       tools |-> Append(c.tools, tool)]

LinkExecutable(fs, name, sources, dep_outputs, out_dir, outcome, t) ==
    BuildArtifact(fs, "cc -o", Join(out_dir, <<"", name, "">>),
                  name, sources, dep_outputs, out_dir, outcome, t)

LinkSharedLibrary(fs, name, sources, dep_outputs, out_dir, outcome, t) ==
    BuildArtifact(fs, "cc -shared", Join(out_dir, <<"lib", name, ".so">>),
                  name, sources, dep_outputs, out_dir, outcome, t)

ArchiveStaticLibrary(fs, name, sources, dep_outputs, out_dir, outcome, t) ==
    BuildArtifact(fs, "ar rcs", Join(out_dir, <<"lib", name, ".a">>),
                  name, sources, dep_outputs, out_dir, outcome, t)

\* native.rs line 126-128: the same relative path under the manifest
\* directory.
ManifestOutput(output) == Join(ManifestDir, Tail(output))

\* native.rs lines 122-148: an output the command did not leave in out_dir
\* is copied from the manifest directory when it exists there.
RECURSIVE CopyMissingOutputs(_, _, _)
CopyMissingOutputs(fs, outputs, t) ==
    IF outputs = <<>> THEN fs
    ELSE LET output == Head(outputs)
         IN  CopyMissingOutputs(
                 IF ~Exists(fs, output) /\ Exists(fs, ManifestOutput(output))
                 THEN WriteFile(fs, output, t) ELSE fs,
                 Tail(outputs), t)

\* native.rs lines 99-151.
RunCustomCommand(fs, inputs, outputs, outcome, t) ==
    LET check == NeedsRebuild(fs, inputs, outputs)
    IN  IF check = "error" THEN [res |-> "err", fs |-> fs, tools |-> <<>>]
        ELSE IF check = "false" THEN [res |-> "ok", fs |-> fs, tools |-> <<>>]
        ELSE IF outcome = "final_fails"
          THEN [res |-> "err", fs |-> fs, tools |-> <<"sh -c">>]
        ELSE LET ran == IF outcome = "no_output" THEN fs
                        ELSE [p \in DOMAIN fs |->
                                IF p \in Range(outputs) THEN <<t>> ELSE fs[p]]
             IN  [res |-> "ok", tools |-> <<"sh -c">>,
                  fs |-> CopyMissingOutputs(ran, outputs, t)]

\* native.rs lines 253-290.
ExecuteTarget(fs, node, dep_outputs, out_dir, outcome, t) ==
    LET outputs == JoinAll(out_dir, node.outputs)
    IN  CASE node.kind = "executable" ->
               LinkExecutable(fs, node.name, node.sources, dep_outputs, out_dir, outcome, t)
          [] node.kind = "static_library" ->
               ArchiveStaticLibrary(fs, node.name, node.sources, dep_outputs, out_dir, outcome, t)
          [] node.kind = "shared_library" ->
               LinkSharedLibrary(fs, node.name, node.sources, dep_outputs, out_dir, outcome, t)
          [] OTHER ->
               IF node.command = <<>>
                 THEN [res |-> "err", paths |-> <<>>, fs |-> fs, tools |-> <<>>]
               ELSE LET r == RunCustomCommand(fs, CollectInputs(ManifestDir, node.sources, dep_outputs),
                                              outputs, outcome, t)
                    IN  [res |-> r.res, fs |-> r.fs, tools |-> r.tools,
                         paths |-> IF r.res = "ok" THEN outputs ELSE <<>>]

\* The projects the builder runs on: a target of every kind, alone or
\* depending on a static library.  The action under study is that of the
\* last target; it reads and writes its own sources, objects and outputs
\* and the outputs of its dependencies, and those are the files modelled.
BuilderProjects ==
    {<<LibTarget(k)>> : k \in TargetTypes}
        \cup {<<LibTarget("static_library"), AppTarget(k)>> : k \in TargetTypes}

BuiltTarget(targets) == targets[Len(targets)].name

ObjectPaths(node) ==
    IF node.kind = "custom_command" THEN {}
    ELSE {ObjectPath(OutDir, node.name, i - 1) : i \in DOMAIN node.sources}

ManifestOutputs(node) ==
    IF node.kind = "custom_command"
    THEN {ManifestOutput(o) : o \in Range(JoinAll(OutDir, node.outputs))}
    ELSE {}

\* What the executor hands to the action of a node whose dependencies
\* returned their outputs: their paths in the order of node.dependencies.
DepOutputPaths(nodes, name) ==
    Flatten([i \in DOMAIN nodes[name].dependencies |->
                JoinAll(OutDir, nodes[nodes[name].dependencies[i]].outputs)])

BuilderPaths(nodes, name) ==
    Range(JoinAll(ManifestDir, nodes[name].sources))
        \cup Range(JoinAll(OutDir, nodes[name].outputs))
        \cup ObjectPaths(nodes[name])
        \cup ManifestOutputs(nodes[name])
        \cup Range(DepOutputPaths(nodes, name))

BuilderInit ==
    /\ manifest \in BuilderProjects
    /\ \E seeds \in Perms(TargetNames(manifest)) :
          built = FromManifestResult(manifest, seeds)
    /\ topo = NoCall
    /\ files \in [BuilderPaths(built.nodes, BuiltTarget(manifest)) -> FileStates]
    /\ od = NoCall
    /\ nr = NoCall
    /\ bt = NoCall
    /\ touched = NoCall
    /\ run = NoCall
    /\ clock = 0
    /\ ExecIdle

\* backend.execute_target(node, &dep_outputs, &out_dir), as called by the
\* closure of emit (lines 310-312).  check is what needs_rebuild answers
\* for the node's inputs and outputs on the files the action starts from;
\* fresh is what the action returns when it rebuilds in an empty out_dir.
BuildTarget ==
    /\ \E outcome \in ToolOutcomes, t \in Times :
          LET name == BuiltTarget(manifest)
              node == built.nodes[name]
              dep_outputs == DepOutputPaths(built.nodes, name)
              r == ExecuteTarget(files, node, dep_outputs, OutDir, outcome, t)
              empty == [p \in DOMAIN files |-> IF p[1] = OutDir THEN <<>> ELSE <<t>>]
          IN  /\ files' = r.fs
              /\ bt' = [res |-> r.res, node |-> name, paths |-> r.paths, tools |-> r.tools,
                        check |-> NeedsRebuild(files,
                                      CollectInputs(ManifestDir, node.sources, dep_outputs),
                                      JoinAll(OutDir, node.outputs)),
                        fresh |-> ExecuteTarget(empty, node, dep_outputs, OutDir, "ok", t)]
    /\ UNCHANGED <<od, nr, touched>>
    /\ UNCHANGED <<run, clock>>
    /\ UNCHANGED <<vars, graph_vars>>

\* main.rs lines 183-189: `clean` removes the build directory.
Clean ==
    /\ \E p \in DOMAIN files : p[1] = OutDir /\ files[p] # <<>>
    /\ files' = [p \in DOMAIN files |-> IF p[1] = OutDir THEN <<>> ELSE files[p]]
    /\ bt' = NoCall
    /\ UNCHANGED <<od, nr, touched>>
    /\ UNCHANGED <<run, clock>>
    /\ UNCHANGED <<vars, graph_vars>>

BuilderNext ==
    \/ BuildTarget
    \/ Clean

BuilderSpec == BuilderInit /\ [][BuilderNext]_all_vars

\* C20: for every target kind, when needs_rebuild(sources + dep_outputs,
\* outputs) is false the action spawns no compiler, archiver, linker or
\* shell and returns the output paths it returns when it rebuilds: the
\* node's declared outputs under out_dir.
C20_UpToDateSpawnsNothing ==
    (bt.res # "none" /\ bt.check = "false") =>
        /\ bt.tools = <<>>
        /\ bt.res = "ok"
        /\ bt.fresh.res = "ok" /\ bt.fresh.tools # <<>>
        /\ bt.paths = bt.fresh.paths
        /\ bt.paths = JoinAll(OutDir, built.nodes[bt.node].outputs)

\* C20 witness: an up-to-date custom command with a dependency output among
\* its inputs returns its declared output without running the shell.
C20_Witness ==
    /\ bt.res = "ok"
    /\ bt.check = "false"
    /\ bt.node = "app"
    /\ built.nodes["app"].kind = "custom_command"
    /\ bt.tools = <<>>
    /\ bt.paths = <<Join(OutDir, <<"", "app", ".gen">>)>>

\* ------------------------------------------------ drive: repeated builds
\* `crust build` run again and again on one project (main.rs:81-130 with
\* the native backend), between source edits and output deletions.  The
\* project is a static library, an executable that links it, and an
\* independent custom command without inputs, with or without a declared
\* output.
GenTarget(outputs) ==
    [MakeTarget("custom_command", "gen", <<>>, outputs) EXCEPT !.sources = <<>>]

DriveProjects ==
    {<<LibTarget("static_library"), AppTarget("executable"), GenTarget(o)>> :
        o \in DeclaredOutputs("gen")}

DrivePaths(nodes) ==
    StalePaths(nodes) \cup UNION {ObjectPaths(nodes[n]) : n \in DOMAIN nodes}

\* native.rs lines 322-327: every node's outputs under out_dir, in the
\* iteration order of the nodes map.
PrimaryOutputs(nodes, iter, out_dir) ==
    Flatten([i \in DOMAIN iter |-> JoinAll(out_dir, nodes[iter[i]].outputs)])

\* The run record.  last is how the latest drive ended (none, rejected,
\* skipped, ok, err); ok and failed are the nodes whose action returned Ok
\* or Err in this run and frozen the Ok completions that were on the
\* completion channel ahead of the first Err.  The rest is history:
\* spawned holds the nodes whose action spawned a tool, owed the dependents
\* for which a dependency rewrote an output later than their own, stale_ok
\* whether needs_rebuild was true for each of those, noout whether a shell
\* command left a declared output unwritten, settled whether the latest
\* emit returned Ok with every output written and nothing was edited or
\* deleted since, and warm the value of settled when this drive began.
NewRun(phase, last, warm) ==
    [phase |-> phase, last |-> last, ok |-> {}, failed |-> {}, frozen |-> {},
     spawned |-> {}, owed |-> {}, stale_ok |-> TRUE, noout |-> FALSE,
     settled |-> warm, warm |-> warm]

\* A fresh checkout: the manifest and the sources exist, the build
\* directory is empty.
DriveInit ==
    /\ manifest \in DriveProjects
    /\ \E seeds \in Perms(TargetNames(manifest)) :
          built = FromManifestResult(manifest, seeds)
    /\ topo = NoCall
    /\ clock = UNIX_EPOCH
    /\ files = [p \in DrivePaths(built.nodes) |->
                   IF p[1] = OutDir THEN <<>> ELSE <<clock>>]
    /\ od = NoCall
    /\ nr = NoCall
    /\ bt = NoCall
    /\ touched = NoCall
    /\ run = NewRun("idle", "none", FALSE)
    /\ ExecIdle

Disturbed == [run EXCEPT !.last = "none", !.settled = FALSE]

\* The user saves a declared source.
EditSource ==
    /\ run.phase = "idle"
    /\ \E path \in SourcePaths(built.nodes) : files' = WriteFile(files, path, clock)
    /\ run' = Disturbed
    /\ UNCHANGED <<od, nr, bt, touched, clock>>
    /\ UNCHANGED <<vars, graph_vars>>

\* The user deletes a declared output from the build directory.
DeleteOutput ==
    /\ run.phase = "idle"
    /\ \E path \in OutputPaths(built.nodes) :
          /\ Exists(files, path)
          /\ files' = [files EXCEPT ![path] = <<>>]
    /\ run' = Disturbed
    /\ UNCHANGED <<od, nr, bt, touched, clock>>
    /\ UNCHANGED <<vars, graph_vars>>

\* Time passes.
Tick ==
    /\ clock < MaxTime
    /\ clock' = clock + 1
    /\ UNCHANGED <<files, od, nr, bt, touched, run>>
    /\ UNCHANGED <<vars, graph_vars>>

\* main.rs lines 81-100: reject --jobs 0, ask the backend for its primary
\* outputs, and skip the build unless they are empty or is_outdated; an
\* is_outdated error ends the drive.
DriveStart ==
    /\ run.phase = "idle"
    /\ \E jobs \in Parallelisms, iter \in Perms(DOMAIN built.nodes) :
          LET outputs_to_check == PrimaryOutputs(built.nodes, iter, OutDir)
              outdated == IF outputs_to_check = <<>> THEN "true"
                          ELSE IsOutdated(files, built.nodes, iter, ManifestPath,
                                          outputs_to_check)
          IN  run' = IF DriveRejectsJobs(jobs)
                       THEN NewRun("idle", "rejected", run.settled)
                     ELSE IF outdated = "error"
                       THEN NewRun("idle", "err", run.settled)
                     ELSE IF outdated = "false"
                       THEN NewRun("idle", "skipped", run.settled)
                     ELSE NewRun("emit", "none", run.settled)
    /\ UNCHANGED <<files, od, nr, bt, touched, clock>>
    /\ UNCHANGED <<vars, graph_vars>>

\* executor/mod.rs lines 102-111 and 162-199: a node is handed to a worker
\* once the Ok completions of all its dependencies were processed, and
\* after the first Err only the completions ahead of it still are.
Dispatchable(r, nodes) ==
    {n \in DOMAIN nodes \ (r.ok \cup r.failed) :
        Range(nodes[n].dependencies) \subseteq (IF r.failed = {} THEN r.ok ELSE r.frozen)}

\* A dependency's action wrote an output later than an existing output of
\* the dependent m.
Outdates(before, after, nodes, n, m, t) ==
    /\ n \in Range(nodes[m].dependencies)
    /\ \E o \in Range(JoinAll(OutDir, nodes[n].outputs)),
          mo \in Range(JoinAll(OutDir, nodes[m].outputs)) :
          /\ Exists(after, o) /\ Modified(after, o) = t
          /\ Exists(before, mo) /\ t > Modified(before, mo)

\* native.rs lines 310-312 inside executor/mod.rs lines 130-146: a worker
\* runs execute_target on a dispatched node with the outputs of its
\* dependencies and reports Ok or Err.
BuildStep ==
    /\ run.phase = "emit"
    /\ \E n \in Dispatchable(run, built.nodes), outcome \in ToolOutcomes :
          LET node == built.nodes[n]
              r == ExecuteTarget(files, node, DepOutputPaths(built.nodes, n),
                                 OutDir, outcome, clock)
              wrote == r.res = "ok" /\ r.tools # <<>>
              now_owed == {m \in DOMAIN built.nodes :
                              wrote /\ Outdates(files, r.fs, built.nodes, n, m, clock)}
          IN  /\ files' = r.fs
              /\ run' = [run EXCEPT
                    !.ok = IF r.res = "ok" THEN @ \cup {n} ELSE @,
                    !.failed = IF r.res = "ok" THEN @ ELSE @ \cup {n},
                    !.frozen = IF r.res # "ok" /\ run.failed = {} THEN run.ok ELSE @,
                    !.spawned = IF r.tools # <<>> THEN @ \cup {n} ELSE @,
                    !.owed = @ \cup now_owed,
                    !.stale_ok = @ /\ \A m \in now_owed :
                        NeedsRebuild(r.fs,
                            CollectInputs(ManifestDir, built.nodes[m].sources,
                                          DepOutputPaths(built.nodes, m)),
                            JoinAll(OutDir, built.nodes[m].outputs)) = "true",
                    !.noout = @ \/ (wrote /\ \E o \in Range(JoinAll(OutDir, node.outputs)) :
                                                ~Exists(r.fs, o))]
    /\ UNCHANGED <<od, nr, bt, touched, clock>>
    /\ UNCHANGED <<vars, graph_vars>>

\* executor/mod.rs lines 201-227 and main.rs line 102: the workers have
\* drained the queue; emit returns Ok when every node completed, else the
\* first error.
EndRun ==
    /\ run.phase = "emit"
    /\ Dispatchable(run, built.nodes) = {}
    /\ run' = [run EXCEPT !.phase = "idle",
                          !.last = IF run.failed = {} THEN "ok" ELSE "err",
                          !.settled = run.failed = {} /\ ~run.noout]
    /\ UNCHANGED <<files, od, nr, bt, touched, clock>>
    /\ UNCHANGED <<vars, graph_vars>>

DriveNext ==
    \/ EditSource
    \/ DeleteOutput
    \/ Tick
    \/ DriveStart
    \/ BuildStep
    \/ EndRun

DriveSpec == DriveInit /\ [][DriveNext]_all_vars

\* ---------------------------------------------------- drive properties
\* needs_rebuild(sources + dependency outputs, outputs) for node n, as the
\* node's action asks it.
TargetNeedsRebuild(fs, nodes, n) ==
    NeedsRebuild(fs,
                 CollectInputs(ManifestDir, nodes[n].sources, DepOutputPaths(nodes, n)),
                 JoinAll(OutDir, nodes[n].outputs))

\* C21: a drive that begins after an emit that returned Ok with every
\* declared output written, and with no edit or deletion in between,
\* spawns no compiler, archiver, linker or shell.
C21_RebuildSpawnsNothing ==
    run.warm => run.spawned = {}

\* The same for the projects in which every target declares an output.
RebuildSpawnsNothingWithOutputs ==
    (run.warm /\ \A n \in DOMAIN built.nodes : built.nodes[n].outputs # <<>>)
        => run.spawned = {}

C30_SkipHidesNoStaleTarget ==
    run.last = "skipped" =>
        \A n \in DOMAIN built.nodes :
            built.nodes[n].outputs # <<>> => TargetNeedsRebuild(files, built.nodes, n) = "false"

====
